---- MODULE Spec2Model ----
(***************************************************************************)
(* Cold-chain stability monitor and multi-trip route validator of the      *)
(* vrp-backend service (src/mapwithvrp/vrp-backend).                       *)
(*                                                                         *)
(* Time is counted in clock ticks, TicksPerSec ticks to the second, so     *)
(* that int(remaining) in update_stability truncates as it does in Python. *)
(* Temperatures are whole degrees Celsius.                                 *)
(***************************************************************************)
EXTENDS Integers, Sequences, FiniteSets, TLC

\* ------------------------------------------------------------------------
\* Bounds of the model
\* ------------------------------------------------------------------------
NumOrders == 1
TicksPerSec == 2
MaxNow == 6
MaxExcursionTemp == 15
MaxTimeExertionSec == 2
NumCustomers == 2
SpacingM == 1667
LiveSecPerStep == 120
MaxDemand == 3
MaxEdgeCalls == 3

\* ------------------------------------------------------------------------
\* Program constants
\* ------------------------------------------------------------------------
FRIDGE_MAX == 8
SHIFT_LIMIT_SEC == 28800
FALLBACK_SPEED_CM_PER_SEC == 1667
NO_DEADLINE == 9999
SOL_VEH_CAP == 15

\* Durations are Python floats.  A float carries sys.float_info.mant_dig
\* binary digits, 53 in CPython; the floats of the model carry
\* FLOAT_MANT_DIG, so that a sum of 2^FLOAT_MANT_DIG seconds or more is held
\* to the even second as CPython holds a sum near the shift limit to the
\* nearest 2^-38 s.
FLOAT_MANT_DIG == 14

Orders == 1..NumOrders
Temps == {FRIDGE_MAX, FRIDGE_MAX + 1, MaxExcursionTemp, MaxExcursionTemp + 1}
Threads == {1, 2}

NoState == [present |-> FALSE]
NoTime == -1
NoSecs == -1

VARIABLES
    demand,                     \* node -> demand, of build_nodes_and_client
    due,                        \* node -> due time in minutes
    cap,                        \* vehicle capacity of the request
    osrm,                       \* the OSRMClient of the request: cache, fallback_edges
    roads,                      \* <<p, q>> -> seconds the map service answers for the road
    served,                     \* the request has been served
    vlast,                      \* the validation served last: route and result
    slast,                      \* the split_into_trips call served last
    elast,                      \* the get_edge call served last
    mlast,                      \* the merges served so far: input and output
    patient,                    \* patient id -> its row in the patient table
    hgs,                        \* the /hgs request: position, locals, response
    STABILITY_STATE,            \* order id -> state dict, or NoState
    now,                        \* the wall clock read by _now(), in ticks
    dashboard,                  \* order id -> "Order".dashboard_id is set
    orderStatus,                \* order id -> status column of the order row
    estimated_stability_time,   \* order id -> seconds of the latest inserted row
    last,                       \* the operation served last
    resp,                       \* order id -> latest response in the order's session
    pc,                         \* thread -> position inside update_stability
    loc                         \* thread -> locals of update_stability

callVars == <<slast, elast, mlast, patient, hgs, roads>>

routeVars == <<demand, due, cap, osrm, served, vlast, slast, elast, mlast,
               patient, hgs, roads>>

stabilityVars == <<STABILITY_STATE, now, dashboard, orderStatus,
                   estimated_stability_time, last, resp, pc, loc>>

vars == <<demand, due, cap, osrm, served, vlast, slast, elast, mlast, patient,
          hgs, roads, STABILITY_STATE, now, dashboard, orderStatus,
          estimated_stability_time, last, resp, pc, loc>>

\* ------------------------------------------------------------------------
\* Responses
\* ------------------------------------------------------------------------
Resp(kind, alert, remaining, wrote) ==
    [kind |-> kind, alert |-> alert, remaining_seconds |-> remaining,
     written_to_dashboard |-> wrote]

NoResp == Resp("none", "", NoSecs, FALSE)
RespStarted == Resp("start", "", NoSecs, FALSE)
RespNotStarted == Resp("error", "", NoSecs, FALSE)
RespInactive == Resp("inactive", "", NoSecs, FALSE)
RespNoDashboard == Resp("http400", "", NoSecs, FALSE)
RespExceeded == Resp("alert", "MAX_EXCURSION_EXCEEDED", NoSecs, FALSE)
RespRemaining(secs) == Resp("remaining", "", secs, TRUE)
RespSafe == Resp("safe", "", NoSecs, TRUE)

\* ------------------------------------------------------------------------
\* stability_router.py
\* ------------------------------------------------------------------------
\* get_medication_config: (max_temp_range_excursion, max_time_exertion seconds)
get_medication_config(o) ==
    [max_exc |-> MaxExcursionTemp, max_time |-> MaxTimeExertionSec * TicksPerSec]

\* the dict start_stability stores
NewState(o) ==
    [present |-> TRUE,
     timer_started |-> FALSE,
     timer_started_at |-> NoTime,
     active |-> TRUE,
     max_exc |-> get_medication_config(o).max_exc,
     max_time |-> get_medication_config(o).max_time]

\* int(x) of a number of ticks, in seconds: truncation toward zero
IntSecs(x) == IF x >= 0 THEN x \div TicksPerSec ELSE -((-x) \div TicksPerSec)

\* line 81, with the check on "active" left out
IsInactive_Skipped(s) == FALSE

\* line 81
IsInactive(s) == ~s.active

\* line 101
ExceedsMax(temp, s) == temp > s.max_exc

\* line 106, without the test on timer_started
ShouldStartTimer_Restart(temp, s) == temp > FRIDGE_MAX

\* line 106
ShouldStartTimer(temp, s) == temp > FRIDGE_MAX /\ ~s.timer_started

\* lines 107-108
StartTimer(s, t) == [s EXCEPT !.timer_started = TRUE, !.timer_started_at = t]

\* lines 112-113, with the elapsed time added instead of subtracted
Remaining_Added(s, t) == s.max_time + (t - s.timer_started_at)

\* lines 112-113
Remaining(s, t) == s.max_time - (t - s.timer_started_at)

\* lines 115-117
Expire(s, remaining) == IF remaining <= 0 THEN [s EXCEPT !.active = FALSE] ELSE s
Clamp(remaining) == IF remaining <= 0 THEN 0 ELSE remaining

\* lines 105-162 on a dict s that passed the excursion check; t1 and t2 are
\* the two readings of _now()
TimerBranch(s, temp, t1, t2) ==
    LET s1 == IF ShouldStartTimer(temp, s) THEN StartTimer(s, t1) ELSE s
    IN  IF s1.timer_started
        THEN LET remaining == Remaining(s1, t2)
             IN  [state |-> Expire(s1, remaining),
                  resp |-> RespRemaining(IntSecs(Clamp(remaining))),
                  write |-> IntSecs(Clamp(remaining))]
        ELSE [state |-> s1,
              resp |-> RespSafe,
              write |-> IntSecs(s1.max_time)]

\* update_stability as a whole: the new dict, the response and the seconds
\* inserted into estimated_stability_time (NoSecs: no insert)
UpdateResult(s, temp, hasDash, t1, t2) ==
    IF ~s.present THEN [state |-> s, resp |-> RespNotStarted, write |-> NoSecs]
    ELSE IF IsInactive(s) THEN [state |-> s, resp |-> RespInactive, write |-> NoSecs]
    ELSE IF ~hasDash THEN [state |-> s, resp |-> RespNoDashboard, write |-> NoSecs]
    ELSE IF ExceedsMax(temp, s)
         THEN [state |-> [s EXCEPT !.active = FALSE], resp |-> RespExceeded,
               write |-> NoSecs]
    ELSE TimerBranch(s, temp, t1, t2)

Op(op, o, temp, wrote) == [op |-> op, order |-> o, temp |-> temp, wrote |-> wrote]

IdleLoc == [order |-> 0, temp |-> 0, remaining |-> 0]

\* ------------------------------------------------------------------------
\* main.py: OSRMClient, split_into_trips, validate_multitrip
\* ------------------------------------------------------------------------
DEPOT == 0
Customers == 1..NumCustomers
Nodes == {DEPOT} \cup Customers
Edges == Nodes \X Nodes

NoEdge == [d |-> -1, t |-> -1]

Abs(x) == IF x >= 0 THEN x ELSE -x

\* dict.get(k, default)
Get(f, k, default) == IF k \in DOMAIN f THEN f[k] ELSE default

\* haversine_m as a signed difference
haversine_m_Signed(p, q) == SpacingM * (p - q)

\* the places lie on one road, place p at SpacingM * p metres from the
\* hospital, which is place 0; haversine_m is taken between two places
haversine_m(p, q) == SpacingM * Abs(p - q)

\* lines 485-487: straight-line distance at 60 km/h
FallbackEdge(p, q) ==
    [d |-> haversine_m(p, q),
     t |-> (haversine_m(p, q) * 100) \div FALLBACK_SPEED_CM_PER_SEC]

\* the one slow road of the network: from the farthest place back to the
\* hospital.  Driving out there over straight-line estimates and back over
\* this road takes SHIFT_LIMIT_SEC to the second.
SlowRoad == <<NumCustomers, 0>>
SlowRoadSec == SHIFT_LIMIT_SEC - FallbackEdge(0, NumCustomers).t

\* what the map service answers for the road from p to q when it answers:
\* metres, seconds
LiveAnswer(p, q) ==
    [d |-> 2 * SpacingM * Abs(p - q), t |-> roads[<<p, q>>]]

\* the roads of the line: LiveSecPerStep seconds from one place to the next,
\* but for the slow road
LineRoads ==
    [e \in Edges |-> IF e = SlowRoad THEN SlowRoadSec
                     ELSE LiveSecPerStep * Abs(e[1] - e[2])]

\* roads whose seconds fall between the floats when they are summed.  With
\* the ways out taken as straight lines, the trip to place 1 and the way out
\* to the farthest place take three seconds more than 2^FLOAT_MANT_DIG
\* seconds together, and the way back from the farthest place ends the route
\* one second after the shift limit.
UnevenRoads ==
    [e \in Edges |->
        IF e = <<1, 0>>
        THEN 2^FLOAT_MANT_DIG + 3 - FallbackEdge(0, NumCustomers).t - FallbackEdge(0, 1).t
        ELSE IF e = <<NumCustomers, 0>>
        THEN SHIFT_LIMIT_SEC + 1 - (2^FLOAT_MANT_DIG + 3)
        ELSE LiveSecPerStep * Abs(e[1] - e[2])]

\* the road networks a request can meet
RoadMaps == {LineRoads, UnevenRoads}

\* the coords of a request whose node n is the patient at place n
LineCoords == [n \in Nodes |-> n]

\* OSRMClient.__init__
NewClient(coords) ==
    [coords |-> coords, cache |-> [e \in Edges |-> NoEdge], fallback_edges |-> {}]

\* line 454 with the cache never consulted
Cached_Never(c, u, v) == FALSE

\* line 454: (u, v) in self.cache
Cached(c, u, v) == c.cache[<<u, v>>] # NoEdge

\* OSRMClient.get_edge; up is the set of edges the live query answers in
\* this call.  The result is the client afterwards, the edge returned,
\* whether the live service was queried, and whether the call raised
\* (KeyError of lines 457-458, outside the try).
get_edge(c, u, v, up) ==
    IF Cached(c, u, v)
    THEN [osrm |-> c, edge |-> c.cache[<<u, v>>], queried |-> FALSE,
          raised |-> FALSE]
    ELSE IF u \notin DOMAIN c.coords \/ v \notin DOMAIN c.coords
    THEN [osrm |-> c, edge |-> NoEdge, queried |-> FALSE, raised |-> TRUE]
    ELSE IF <<u, v>> \in up
    THEN [osrm |-> [c EXCEPT !.cache[<<u, v>>] =
                        LiveAnswer(c.coords[u], c.coords[v])],
          edge |-> LiveAnswer(c.coords[u], c.coords[v]),
          queried |-> TRUE, raised |-> FALSE]
    ELSE [osrm |-> [c EXCEPT !.cache[<<u, v>>] =
                        FallbackEdge(c.coords[u], c.coords[v]),
                    !.fallback_edges = c.fallback_edges \cup {<<u, v>>}],
          edge |-> FallbackEdge(c.coords[u], c.coords[v]),
          queried |-> TRUE, raised |-> FALSE]

\* line 525 with one unit of overload let through
ClosesTrip_Loose(cur, load, d, capacity) == cur # <<>> /\ load + d > capacity + 1

\* line 525: the trip is closed before the customer that would overload it
ClosesTrip(cur, load, d, capacity) == cur # <<>> /\ load + d > capacity

\* split_into_trips, from customer i of the route on
RECURSIVE SplitFrom(_, _, _, _, _, _, _)
SplitFrom(route, i, capacity, dem, trips, cur, load) ==
    IF i > Len(route)
    THEN IF cur # <<>> THEN Append(trips, [trip |-> cur, load |-> load]) ELSE trips
    ELSE LET c == route[i]
             d == Get(dem, c, 0)
         IN  IF ClosesTrip(cur, load, d, capacity)
             THEN SplitFrom(route, i + 1, capacity, dem,
                            Append(trips, [trip |-> cur, load |-> load]), <<c>>, d)
             ELSE SplitFrom(route, i + 1, capacity, dem, trips,
                            Append(cur, c), load + d)

split_into_trips(route, capacity, dem) ==
    SplitFrom(route, 1, capacity, dem, <<>>, <<>>, 0)

\* line 575 with the fallback test the wrong way round
RejectsLate_Inverted(is_fallback) == is_fallback

\* line 575 without the fallback test
RejectsLate_Always(is_fallback) == TRUE

\* line 575: a late arrival rejects the route unless the leg was a fallback
RejectsLate(is_fallback) == ~is_fallback

\* lines 560 and 568: eta_min = clk / 60.0 > node_due
Late(clk, node_due) == clk > node_due * 60

\* the spacing of the floats around x >= 0
RECURSIVE UlpFrom(_, _)
UlpFrom(x, u) == IF x < u * 2^FLOAT_MANT_DIG THEN u ELSE UlpFrom(x, 2 * u)

\* the float nearest to x >= 0, a tie going to the even mantissa
RoundFloat(x) ==
    LET u == UlpFrom(x, 1)
        q == x \div u
        r == x % u
    IN  IF 2 * r < u THEN q * u
        ELSE IF 2 * r > u THEN (q + 1) * u
        ELSE IF q % 2 = 0 THEN q * u ELSE (q + 1) * u

\* x + y of two floats: the exact sum, rounded
FloatAdd(x, y) == RoundFloat(x + y)

\* line 584 with the limit taken twice over
ExceedsShift_Doubled(total_t) == total_t > 2 * SHIFT_LIMIT_SEC

\* line 584
ExceedsShift(total_t) == total_t > SHIFT_LIMIT_SEC

\* lines 555-577: the legs of one trip from leg k on; ok = FALSE is the
\* early return of line 577, raised the KeyError of get_edge
RECURSIVE WalkLegs(_, _, _, _, _, _)
WalkLegs(c, full, k, clk, dueOf, up) ==
    IF k >= Len(full) THEN [osrm |-> c, ok |-> TRUE, clk |-> clk, raised |-> FALSE]
    ELSE LET u == full[k]
             v == full[k + 1]
             Leg(g) ==
                 LET clk2 == FloatAdd(clk, g.edge.t)
                     is_fallback == <<u, v>> \in g.osrm.fallback_edges
                 IN  IF g.raised
                     THEN [osrm |-> g.osrm, ok |-> FALSE, clk |-> clk,
                           raised |-> TRUE]
                     ELSE IF /\ v # DEPOT
                             /\ Late(clk2, Get(dueOf, v, NO_DEADLINE))
                             /\ RejectsLate(is_fallback)
                     THEN [osrm |-> g.osrm, ok |-> FALSE, clk |-> clk2,
                           raised |-> FALSE]
                     ELSE WalkLegs(g.osrm, full, k + 1, clk2, dueOf, up)
         IN  Leg(get_edge(c, u, v, up))

Rejected(c) ==
    [osrm |-> c, feasible |-> FALSE, expanded |-> <<>>, customers |-> <<>>,
     raised |-> FALSE]

\* validate_multitrip left by an exception
Raised(c) ==
    [osrm |-> c, feasible |-> FALSE, expanded |-> <<>>, customers |-> <<>>,
     raised |-> TRUE]

\* line 592 with the depot entries left in
WithoutDepot_Kept(path) == path

\* line 592
WithoutDepot(path) == SelectSeq(path, LAMBDA n : n # DEPOT)

\* line 547 with the clock of the trips before carried on
TripClock_Carried(total_t) == total_t

\* line 547: clk = 0.0 when a trip leaves the depot
TripClock(total_t) == 0

\* lines 546-592: the trips from trip i on
RECURSIVE WalkTrips(_, _, _, _, _, _, _)
WalkTrips(c, trips, i, total_t, expanded, dueOf, up) ==
    IF i > Len(trips)
    THEN IF ExceedsShift(total_t) THEN Rejected(c)
         ELSE [osrm |-> c, feasible |-> TRUE, expanded |-> expanded,
               customers |-> WithoutDepot(expanded), raised |-> FALSE]
    ELSE LET full == <<DEPOT>> \o trips[i].trip \o <<DEPOT>>
             exp2 == IF expanded = <<>> THEN full ELSE expanded \o Tail(full)
             Trip(w) ==
                 IF w.raised THEN Raised(w.osrm)
                 ELSE IF ~w.ok THEN Rejected(w.osrm)
                 ELSE WalkTrips(w.osrm, trips, i + 1, FloatAdd(total_t, w.clk), exp2,
                                dueOf, up)
         IN  Trip(WalkLegs(c, full, 1, TripClock(total_t), dueOf, up))

validate_multitrip(route, capacity, dem, dueOf, c, up) ==
    WalkTrips(c, split_into_trips(route, capacity, dem), 1, 0, <<>>, dueOf, up)

\* lines 609-611 with rw not appended
MergedInto_Lost(raw, i, j, rw) ==
    SubSeq(raw, 1, i - 1) \o SubSeq(raw, i + 1, j - 1) \o SubSeq(raw, j + 1, Len(raw))

\* lines 609-611: raw without its i-th and j-th route, i < j, and with rw
MergedInto(raw, i, j, rw) ==
    Append(SubSeq(raw, 1, i - 1) \o SubSeq(raw, i + 1, j - 1)
               \o SubSeq(raw, j + 1, Len(raw)), rw)

\* line 603 with the route next to route i passed over
FirstPartner_Skipping(i) == i + 2

\* line 603: j runs from i + 1
FirstPartner(i) == i + 1

\* the record of a merge loop that has just begun its first pass: the
\* merges made, the passes of the while loop begun, the pairs tried
NoScan == [merges |-> 0, passes |-> 1, tried |-> <<>>]

\* lines 601-615: the scan of the pairs from (i, j) on; it starts again at
\* the first pair after every merge
RECURSIVE MergeScan(_, _, _, _, _, _, _, _, _)
MergeScan(raw, i, j, capacity, dem, dueOf, c, up, log) ==
    IF i > Len(raw) THEN [osrm |-> c, raw |-> raw, raised |-> FALSE, log |-> log]
    ELSE IF j > Len(raw)
    THEN MergeScan(raw, i + 1, FirstPartner(i + 1), capacity, dem, dueOf, c, up, log)
    ELSE LET tried == Append(log.tried, [i |-> i, j |-> j, first |-> raw[i],
                                         second |-> raw[j],
                                         cand |-> raw[i] \o raw[j]])
             Pair(r) ==
                 IF r.raised
                 THEN [osrm |-> r.osrm, raw |-> raw, raised |-> TRUE,
                       log |-> [log EXCEPT !.tried = tried]]
                 ELSE IF r.feasible
                 THEN MergeScan(MergedInto(raw, i, j, r.customers), 1,
                                FirstPartner(1), capacity, dem, dueOf, r.osrm, up,
                                [merges |-> log.merges + 1,
                                 passes |-> log.passes + 1, tried |-> tried])
                 ELSE MergeScan(raw, i, j + 1, capacity, dem, dueOf, r.osrm, up,
                                [log EXCEPT !.tried = tried])
         IN  Pair(validate_multitrip(raw[i] \o raw[j], capacity, dem, dueOf, c, up))

\* line 620 with every route kept
KeptInFinal_Always(ok) == TRUE

\* line 620 with no route kept
KeptInFinal_Never(ok) == FALSE

\* line 620: final takes the routes that validate
KeptInFinal(ok) == ok

\* lines 617-621: the routes of raw that validate, expanded, from route k on
RECURSIVE FinalFrom(_, _, _, _, _, _, _, _)
FinalFrom(raw, k, final, capacity, dem, dueOf, c, up) ==
    IF k > Len(raw) THEN [osrm |-> c, final |-> final, raised |-> FALSE]
    ELSE LET Route(r) ==
                 IF r.raised THEN [osrm |-> r.osrm, final |-> <<>>, raised |-> TRUE]
                 ELSE FinalFrom(raw, k + 1,
                                IF KeptInFinal(r.feasible)
                                THEN Append(final, r.expanded) ELSE final,
                                capacity, dem, dueOf, r.osrm, up)
         IN  Route(validate_multitrip(raw[k], capacity, dem, dueOf, c, up))

combine_and_validate_multitrip(routes, capacity, dem, dueOf, c, up) ==
    LET Scanned(m) ==
            LET Done(f) ==
                    [osrm |-> f.osrm, final |-> f.final, raised |-> f.raised,
                     raw |-> m.raw, log |-> m.log]
            IN  IF m.raised
                THEN [osrm |-> m.osrm, final |-> <<>>, raised |-> TRUE,
                      raw |-> m.raw, log |-> m.log]
                ELSE Done(FinalFrom(m.raw, 1, <<>>, capacity, dem, dueOf, m.osrm, up))
    IN  Scanned(MergeScan(SelectSeq(routes, LAMBDA r : r # <<>>), 1, FirstPartner(1),
                          capacity, dem, dueOf, c, up, NoScan))

\* summarize_route from leg k on: seconds of the path and within_shift
RECURSIVE SumLegs(_, _, _, _, _)
SumLegs(c, nodes, k, time, up) ==
    IF k >= Len(nodes) THEN [osrm |-> c, time |-> time, raised |-> FALSE]
    ELSE LET Leg(g) ==
                 IF g.raised THEN [osrm |-> g.osrm, time |-> time, raised |-> TRUE]
                 ELSE SumLegs(g.osrm, nodes, k + 1, FloatAdd(time, g.edge.t), up)
         IN  Leg(get_edge(c, nodes[k], nodes[k + 1], up))

summarize_route(c, nodes, up) ==
    LET Summary(s) ==
            [osrm |-> s.osrm, raised |-> s.raised,
             metrics |-> [nodes |-> nodes,
                          within_shift |-> s.time <= SHIFT_LIMIT_SEC]]
    IN  Summary(SumLegs(c, nodes, 1, 0, up))

\* the customer sequences a solver route can be: no customer twice
Routes ==
    {r \in UNION {[1..n -> Customers] : n \in 0..NumCustomers} :
        \A i, j \in DOMAIN r : i # j => r[i] # r[j]}

\* the legs a route is driven over
LegsOf(route, capacity, dem) ==
    LET trips == split_into_trips(route, capacity, dem)
    IN  UNION {{<<DEPOT, trips[i].trip[1]>>,
                <<trips[i].trip[Len(trips[i].trip)], DEPOT>>}
               \cup {<<trips[i].trip[k], trips[i].trip[k + 1]>> :
                        k \in 1..(Len(trips[i].trip) - 1)} :
               i \in 1..Len(trips)}

\* what a solver answers: routes over the customers cs, no customer twice
RouteLists(cs) ==
    {rs \in UNION {[1..k -> Routes \ {<<>>}] : k \in 0..Cardinality(cs)} :
        /\ \A i \in DOMAIN rs : \A k \in DOMAIN rs[i] : rs[i][k] \in cs
        /\ \A i, j \in DOMAIN rs : \A k \in DOMAIN rs[i], l \in DOMAIN rs[j] :
              rs[i][k] = rs[j][l] => i = j}

\* the state of the map service during a request: it answers every query,
\* none, the queries for the legs out of the hospital only, or those for
\* the legs back to the hospital only
ServiceModes ==
    {Edges, {}, {e \in Edges : e[1] = DEPOT}, {e \in Edges : e[2] = DEPOT}}

\* ------------------------------------------------------------------------
\* main.py: the patient table, get_patients_data,
\* get_driver_todays_deliveries, build_nodes_and_client, run_hgs
\* ------------------------------------------------------------------------
Patients == 1..NumCustomers
RowStates == {"absent", "no_coords", "located"}
HOSPITAL == 0
NoCoords == -1
NoDelay == -1

\* the "Order" rows on file for patient p (COUNT(*) of line 233) and the
\* latest delay_time of the patient, in seconds (lines 235-240).  Patient 1
\* is due within two minutes and patient 2 fills a vehicle alone.
OrdersOf(p) == IF p = 1 THEN 0 ELSE IF p = 2 THEN SOL_VEH_CAP ELSE 1
DelayOf(p) == IF p = 1 THEN 119 ELSE NoDelay

\* the rows of lines 230-243 on the table db; patient p lives at place p
Rows(db) ==
    SelectSeq([p \in Patients |->
                  [patient_id |-> p,
                   lat |-> IF db[p] = "located" THEN p ELSE NoCoords,
                   demand |-> OrdersOf(p),
                   due_date |-> DelayOf(p)]],
              LAMBDA r : db[r.patient_id] # "absent")

\* the rows of lines 289-305: one active order of the driver per patient
\* on file, the order numbered as the patient
DriverRows(db) ==
    SelectSeq([p \in Patients |->
                  [order_id |-> p,
                   patient_id |-> p,
                   lat |-> IF db[p] = "located" THEN p ELSE NoCoords,
                   max_time |-> MaxTimeExertionSec]],
              LAMBDA r : db[r.patient_id] # "absent")

\* lines 249 and 312 with the index used up by the row passed over
AfterSkip_Consumed(i) == i + 1

\* lines 249 and 312: continue leaves the next index as it is
AfterSkip(i) == i

\* lines 251-260: minutes of the interval, 9999 without one
DueVal(due_date) ==
    IF due_date = NoDelay \/ due_date = 0 THEN NO_DEADLINE ELSE due_date \div 60

\* lines 315-325
DueMin(max_time) ==
    IF max_time = NoDelay THEN NO_DEADLINE ELSE max_time \div 60

\* line 268
DemandVal(n) == IF n > 0 THEN n ELSE 1

\* lines 245-271 from row k on; skipped is the warning log of line 248
RECURSIVE PatientsFrom(_, _, _, _, _)
PatientsFrom(rows, k, i, pts, skipped) ==
    IF k > Len(rows) THEN [pts |-> pts, skipped |-> skipped]
    ELSE IF rows[k].lat = NoCoords
    THEN PatientsFrom(rows, k + 1, AfterSkip(i), pts,
                      Append(skipped, rows[k].patient_id))
    ELSE PatientsFrom(rows, k + 1, i + 1,
                      Append(pts, [cust_no |-> i,
                                   id |-> rows[k].patient_id,
                                   lat |-> rows[k].lat,
                                   demand |-> DemandVal(rows[k].demand),
                                   due_date |-> DueVal(rows[k].due_date)]),
                      skipped)

get_patients_data(rows) == PatientsFrom(rows, 1, 1, <<>>, <<>>)

\* lines 307-337 from row k on
RECURSIVE DeliveriesFrom(_, _, _, _)
DeliveriesFrom(rows, k, cust_no, pts) ==
    IF k > Len(rows) THEN pts
    ELSE IF rows[k].lat = NoCoords
    THEN DeliveriesFrom(rows, k + 1, AfterSkip(cust_no), pts)
    ELSE DeliveriesFrom(rows, k + 1, cust_no + 1,
                        Append(pts, [cust_no |-> cust_no,
                                     order_id |-> rows[k].order_id,
                                     patient_id |-> rows[k].patient_id,
                                     lat |-> rows[k].lat,
                                     demand |-> 1,
                                     due_date |-> DueMin(rows[k].max_time)]))

get_driver_todays_deliveries(rows) == DeliveriesFrom(rows, 1, 1, <<>>)

\* the keys of the node maps, and the stop written last under key n
NodeKeys(pts) == {DEPOT} \cup {pts[k].cust_no : k \in DOMAIN pts}
HasStop(pts, n) == \E k \in DOMAIN pts : pts[k].cust_no = n
StopOf(pts, n) ==
    pts[CHOOSE k \in DOMAIN pts :
            /\ pts[k].cust_no = n
            /\ \A l \in DOMAIN pts : pts[l].cust_no = n => l <= k]

\* build_nodes_and_client; the hospital is place 0
build_nodes_and_client(pts) ==
    LET coords == [n \in NodeKeys(pts) |->
                      IF HasStop(pts, n) THEN StopOf(pts, n).lat ELSE 0]
    IN  [coords |-> coords,
         demand |-> [n \in NodeKeys(pts) |->
                        IF HasStop(pts, n) THEN StopOf(pts, n).demand ELSE 0],
         due |-> [n \in NodeKeys(pts) |->
                     IF HasStop(pts, n) THEN StopOf(pts, n).due_date ELSE 10^9],
         osrm |-> NewClient(coords)]

\* lines 682-690 from route k on
RECURSIVE ValidatedFrom(_, _, _, _, _, _, _)
ValidatedFrom(routes, k, validated, dem, dueOf, c, up) ==
    IF k > Len(routes) THEN [osrm |-> c, validated |-> validated, raised |-> FALSE]
    ELSE LET Resplit(trips) ==
                 [i \in 1..Len(trips) |-> <<DEPOT>> \o trips[i].trip \o <<DEPOT>>]
             Route(r) ==
                 IF r.raised
                 THEN [osrm |-> r.osrm, validated |-> <<>>, raised |-> TRUE]
                 ELSE ValidatedFrom(
                          routes, k + 1,
                          IF r.feasible THEN Append(validated, r.expanded)
                          ELSE validated \o
                               Resplit(split_into_trips(routes[k], SOL_VEH_CAP, dem)),
                          dem, dueOf, r.osrm, up)
         IN  Route(validate_multitrip(routes[k], SOL_VEH_CAP, dem, dueOf, c, up))

\* lines 698-725: the points of the response, and the KeyError of line 717
Geo(pts, coords, merged) ==
    [i \in DOMAIN merged |->
        [k \in DOMAIN merged[i] |->
            [lat |-> coords[merged[i][k]],
             id |-> IF HasStop(pts, merged[i][k])
                    THEN StopOf(pts, merged[i][k]).id ELSE HOSPITAL]]]

GeoRaises(coords, merged) ==
    \E i \in DOMAIN merged : \E k \in DOMAIN merged[i] :
        merged[i][k] \notin DOMAIN coords

\* line 736 from path k on
RECURSIVE MetricsFrom(_, _, _, _, _)
MetricsFrom(merged, k, metrics, c, up) ==
    IF k > Len(merged) THEN metrics
    ELSE LET Path(s) ==
                 MetricsFrom(merged, k + 1, Append(metrics, s.metrics), s.osrm, up)
         IN  Path(summarize_route(c, merged[k], up))

\* what the solver can return as cost: a float, finite or not, or None
Costs == {"12.5", "inf", "-inf", "nan", "None"}

\* isinstance(safe_cost, float)
IsFloat(cost) == cost # "None"

\* math.isfinite with every value taken for finite
IsFinite_Always(cost) == TRUE

\* math.isfinite
IsFinite(cost) == cost \notin {"inf", "-inf", "nan"}

\* lines 739-742 and 947-950
SafeCost(cost) == IF IsFloat(cost) /\ ~IsFinite(cost) THEN "None" ELSE cost

\* eta_by_order and eta_cumulative_by_order, empty (lines 861-862)
NoEta == [by_order |-> <<>>, cumulative_by_order |-> <<>>]

NoResponse ==
    [kind |-> "none", num_routes |-> 0, routes |-> <<>>, metrics |-> <<>>,
     cost |-> "absent", eta |-> NoEta]

\* lines 754 and 969
ErrorResponse ==
    [kind |-> "error", num_routes |-> 0, routes |-> <<>>, metrics |-> <<>>,
     cost |-> "absent", eta |-> NoEta]

\* lines 744-750
RouteResponse(merged, geo, metrics, cost) ==
    [kind |-> "routes", num_routes |-> Len(merged), routes |-> geo,
     metrics |-> metrics, cost |-> SafeCost(cost), eta |-> NoEta]

\* lines 800-805
NoDeliveries ==
    [kind |-> "no_deliveries", num_routes |-> 0, routes |-> <<>>, metrics |-> <<>>,
     cost |-> "absent", eta |-> NoEta]

\* run_hgs from line 677 on: pts is the second reading of the table
HgsRespond(pts, routes, up, multi_merge, cost) ==
    LET Respond(b) ==
            LET Merged(m) ==
                    IF m.raised THEN ErrorResponse
                    ELSE IF GeoRaises(b.coords, m.final) THEN ErrorResponse
                    ELSE RouteResponse(m.final, Geo(pts, b.coords, m.final),
                                       MetricsFrom(m.final, 1, <<>>, m.osrm, up),
                                       cost)
                Validated(v) ==
                    IF v.raised THEN ErrorResponse
                    ELSE IF multi_merge
                    THEN Merged(combine_and_validate_multitrip(
                                    routes, SOL_VEH_CAP, b.demand, b.due, v.osrm, up))
                    ELSE Merged([osrm |-> v.osrm, final |-> v.validated,
                                 raised |-> FALSE])
            IN  Validated(ValidatedFrom(routes, 1, <<>>, b.demand, b.due, b.osrm, up))
    IN  Respond(build_nodes_and_client(pts))

\* round(t / 60.0): to the nearest minute, a half to the even one
RoundMin(t) ==
    LET q == t \div 60
        r == t % 60
    IN  IF r < 30 THEN q
        ELSE IF r > 30 THEN q + 1
        ELSE IF q % 2 = 0 THEN q ELSE q + 1

\* lines 911 and 915 with every arrival recorded
Unseen_Always(etas, oid) == TRUE

\* lines 911 and 915: oid not in eta_by_order
Unseen(etas, oid) == oid \notin DOMAIN etas

\* lines 911-916: the ETA of an order is written when it has none
Recorded(etas, oid, minutes) ==
    IF Unseen(etas, oid)
    THEN [o \in DOMAIN etas \cup {oid} |-> IF o = oid THEN minutes ELSE etas[o]]
    ELSE etas

\* lines 883-916: the legs of one path from leg k on; global is
\* cumulative_global_min
RECURSIVE DriverLegs(_, _, _, _, _, _, _, _, _)
DriverLegs(c, path, k, cumulative, legs, eta, global, pts, up) ==
    IF k >= Len(path)
    THEN [osrm |-> c, cumulative |-> cumulative, legs |-> legs, eta |-> eta,
          raised |-> FALSE]
    ELSE LET u == path[k]
             v == path[k + 1]
             Leg(g) ==
                 LET cum2 == FloatAdd(cumulative, g.edge.t)
                     segment_min == RoundMin(g.edge.t)
                     cum_min == RoundMin(cum2)
                     leg == [from |-> u, to |-> v, distance_m |-> g.edge.d,
                             segment_eta_min |-> segment_min,
                             cumulative_eta_min |-> cum_min]
                     Arrived(oid) ==
                         [by_order |-> Recorded(eta.by_order, oid, segment_min),
                          cumulative_by_order |->
                              Recorded(eta.cumulative_by_order, oid,
                                       cum_min + global)]
                 IN  IF g.raised
                     THEN [osrm |-> g.osrm, cumulative |-> cumulative,
                           legs |-> legs, eta |-> eta, raised |-> TRUE]
                     ELSE DriverLegs(g.osrm, path, k + 1, cum2, Append(legs, leg),
                                     IF HasStop(pts, v)
                                     THEN Arrived(StopOf(pts, v).order_id) ELSE eta,
                                     global, pts, up)
         IN  Leg(get_edge(c, u, v, up))

\* lines 879-922 from path k on
RECURSIVE DriverRoutes(_, _, _, _, _, _, _, _)
DriverRoutes(c, paths, k, final_routes, eta, global, pts, up) ==
    IF k > Len(paths)
    THEN [osrm |-> c, final_routes |-> final_routes, eta |-> eta, raised |-> FALSE]
    ELSE LET Path(l) ==
                 IF l.raised
                 THEN [osrm |-> l.osrm, final_routes |-> <<>>, eta |-> eta,
                       raised |-> TRUE]
                 ELSE DriverRoutes(l.osrm, paths, k + 1,
                                   Append(final_routes,
                                          [path |-> paths[k], legs |-> l.legs]),
                                   l.eta, global + RoundMin(l.cumulative), pts, up)
         IN  Path(DriverLegs(c, paths[k], 1, 0, <<>>, eta, global, pts, up))

\* lines 848-854: the merged routes when there are any, the solver's
\* otherwise, each between two depot entries
Normalized(routes, merged_routes) ==
    LET chosen == IF merged_routes # <<>> THEN merged_routes ELSE routes
    IN  [i \in DOMAIN chosen |-> <<DEPOT>> \o chosen[i] \o <<DEPOT>>]

\* lines 952-966
DriverResponse(final_routes, eta, cost) ==
    [kind |-> "driver_routes", num_routes |-> Len(final_routes),
     routes |-> final_routes, metrics |-> <<>>, cost |-> SafeCost(cost),
     eta |-> eta]

\* run_driver_hgs from line 833 on
DriverRespond(pts, routes, up, cost) ==
    LET Respond(b) ==
            LET Summed(r) ==
                    IF r.raised THEN ErrorResponse
                    ELSE DriverResponse(r.final_routes, r.eta, cost)
                Merged(m) ==
                    IF m.raised THEN ErrorResponse
                    ELSE Summed(DriverRoutes(m.osrm, Normalized(routes, m.final),
                                             1, <<>>, NoEta, 0, pts, up))
            IN  Merged(combine_and_validate_multitrip(
                           routes, SOL_VEH_CAP, b.demand, b.due, b.osrm, up))
    IN  Respond(build_nodes_and_client(pts))

\* what the solver can answer a driver: up to two routes of up to two
\* stops each over the customers cs; it may visit a stop again
DriverAnswers(cs) ==
    LET stops == UNION {[1..n -> cs] : n \in 1..2}
    IN  UNION {[1..k -> stops] : k \in 0..2}

NoCall == [route |-> <<>>, feasible |-> TRUE, expanded |-> <<>>, customers |-> <<>>]

\* the node maps a request can be built from (build_nodes_and_client)
NodeDemands ==
    {f \in [Nodes -> 0..2] : f[DEPOT] = 0 /\ \A n \in Customers : f[n] >= 1}
DueTimes == {1, 2, NO_DEADLINE}
NodeDues ==
    {f \in [Nodes -> DueTimes \cup {10^9}] :
        f[DEPOT] = 10^9 /\ \A n \in Customers : f[n] \in DueTimes}
Capacities == {2}

UnitDemand == [n \in Nodes |-> IF n = DEPOT THEN 0 ELSE 1]

\* the node maps of the merge requests: every stop asks for one unit and
\* is due after a minute or never; one or two units fit a vehicle
MergeDues == {f \in NodeDues : \A n \in Customers : f[n] # 2}
MergeCapacities == {1, 2}

\* the inputs of split_into_trips
SplitDemands ==
    {f \in [Nodes -> 0..MaxDemand] : f[DEPOT] = 0 /\ \A n \in Customers : f[n] >= 1}
SplitCapacities == 1..MaxDemand

NoSplit == [route |-> <<>>, capacity |-> 1, demand |-> UnitDemand, trips |-> <<>>]
NoEdgeCall == [u |-> DEPOT, v |-> DEPOT, edge |-> NoEdge, queried |-> FALSE,
               live |-> FALSE, calls |-> 0]
NoMerge == [stage |-> "none", input |-> <<>>, out |-> <<>>, before |-> <<>>,
            raw |-> <<>>, log |-> NoScan, live |-> {}]
HgsIdle == [pc |-> "idle", encoded |-> <<>>, skipped |-> <<>>, routes |-> <<>>,
            pts |-> <<>>, live |-> {}, multi_merge |-> FALSE, cost |-> "None",
            resp |-> NoResponse]
AllLocated == [p \in Patients |-> "located"]

\* no routing request served yet
RouteInit ==
    /\ demand = UnitDemand
    /\ due = [n \in Nodes |-> IF n = DEPOT THEN 10^9 ELSE NO_DEADLINE]
    /\ cap = 2
    /\ osrm = NewClient(LineCoords)
    /\ served = FALSE
    /\ vlast = NoCall
    /\ slast = NoSplit
    /\ elast = NoEdgeCall
    /\ mlast = NoMerge
    /\ hgs = HgsIdle

\* the routing request arrives: build_nodes_and_client makes the node maps
\* and a new client.  A client lives for one request and requests share
\* nothing, so one request is followed.
NewRequest(dem, dueOf, capacity) ==
    /\ ~served
    /\ demand' = dem
    /\ due' = dueOf
    /\ cap' = capacity
    /\ osrm' = NewClient(LineCoords)
    /\ served' = FALSE
    /\ vlast' = NoCall
    /\ UNCHANGED callVars
    /\ UNCHANGED stabilityVars

\* validate_multitrip(route, cap, demand, due, osrm) on the client of the request
Validate(route, up) ==
    /\ ~served
    /\ \E r \in {validate_multitrip(route, cap, demand, due, osrm, up)} :
          /\ osrm' = r.osrm
          /\ vlast' = [route |-> route, feasible |-> r.feasible,
                       expanded |-> r.expanded, customers |-> r.customers]
    /\ served' = TRUE
    /\ UNCHANGED <<demand, due, cap>>
    /\ UNCHANGED callVars
    /\ UNCHANGED stabilityVars

NextRoute ==
    \/ \E dem \in NodeDemands, dueOf \in NodeDues, capacity \in Capacities :
         NewRequest(dem, dueOf, capacity)
    \/ \E route \in Routes :
         \E up \in SUBSET LegsOf(route, cap, demand) : Validate(route, up)

\* split_into_trips(route, capacity, dem)
Split(route, capacity, dem) ==
    /\ slast = NoSplit
    /\ slast' = [route |-> route, capacity |-> capacity, demand |-> dem,
                 trips |-> split_into_trips(route, capacity, dem)]
    /\ UNCHANGED <<demand, due, cap, osrm, served, vlast, elast, mlast, patient, hgs, roads>>
    /\ UNCHANGED stabilityVars

NextSplit ==
    \E route \in Routes, capacity \in SplitCapacities, dem \in SplitDemands :
        Split(route, capacity, dem)

\* osrm.get_edge(u, v) on the client of the request; live: the map service
\* answers during this call.  The client is asked MaxEdgeCalls times.
GetEdge(u, v, live) ==
    /\ elast.calls < MaxEdgeCalls
    /\ \E g \in {get_edge(osrm, u, v, IF live THEN {<<u, v>>} ELSE {})} :
          /\ osrm' = g.osrm
          /\ elast' = [u |-> u, v |-> v, edge |-> g.edge, queried |-> g.queried,
                       live |-> live, calls |-> elast.calls + 1]
    /\ UNCHANGED <<demand, due, cap, served, vlast, slast, mlast, patient, hgs, roads>>
    /\ UNCHANGED stabilityVars

NextEdge == \E u \in Nodes, v \in Nodes, live \in BOOLEAN : GetEdge(u, v, live)

\* combine_and_validate_multitrip(routes, cap, demand, due, osrm) on the
\* client of the request: on the routes of a solver first, on what the
\* first call returned afterwards
Merge(routes, up) ==
    /\ mlast.stage # "again"
    /\ \E r \in {combine_and_validate_multitrip(routes, cap, demand, due, osrm, up)} :
          /\ osrm' = r.osrm
          /\ mlast' = [stage |-> IF mlast.stage = "none" THEN "merged" ELSE "again",
                       input |-> routes, out |-> r.final, before |-> mlast.out,
                       raw |-> r.raw, log |-> r.log, live |-> up]
    /\ served' = TRUE
    /\ UNCHANGED <<demand, due, cap, vlast, slast, elast, patient, hgs, roads>>
    /\ UNCHANGED stabilityVars

\* the customer sequences of expanded paths
CustomersOf(paths) == [i \in DOMAIN paths |-> WithoutDepot(paths[i])]

NextMerge ==
    \/ \E dueOf \in MergeDues, capacity \in MergeCapacities :
         NewRequest(UnitDemand, dueOf, capacity)
    \/ \E routes \in RouteLists(Customers), up \in ServiceModes :
         mlast.stage = "none" /\ Merge(routes, up)
    \/ \E up \in ServiceModes :
         mlast.stage = "merged" /\ Merge(mlast.out, up)
    \/ \E up \in ServiceModes :
         mlast.stage = "merged" /\ Merge(CustomersOf(mlast.out), up)

\* GET /hgs up to the return of the solver (lines 658-668): the table is
\* read, the problem encoded from it, and the solver answers with routes
H_export(routes) ==
    /\ hgs.pc = "idle"
    /\ \E g \in {get_patients_data(Rows(patient))} :
          /\ routes \in RouteLists({g.pts[k].cust_no : k \in DOMAIN g.pts})
          /\ hgs' = [hgs EXCEPT !.pc = "solved", !.encoded = g.pts,
                                !.skipped = g.skipped, !.routes = routes]
    /\ UNCHANGED <<demand, due, cap, osrm, served, vlast, slast, elast, mlast, patient, roads>>
    /\ UNCHANGED stabilityVars

\* another session inserts or deletes a patient, or sets or clears the
\* coordinates of one, while the solver runs
PatientChange(p, s) ==
    /\ hgs.pc = "solved"
    /\ patient[p] # s
    /\ patient' = [patient EXCEPT ![p] = s]
    /\ UNCHANGED <<demand, due, cap, osrm, served, vlast, slast, elast, mlast, hgs, roads>>
    /\ UNCHANGED stabilityVars

\* GET /hgs from line 677 on: the table is read again, the routes are
\* validated, merged, labelled and summarized
H_respond(up, multi_merge, cost) ==
    /\ hgs.pc = "solved"
    /\ \E g \in {get_patients_data(Rows(patient))} :
          hgs' = [hgs EXCEPT !.pc = "done", !.pts = g.pts, !.live = up,
                             !.multi_merge = multi_merge, !.cost = cost,
                             !.resp = HgsRespond(g.pts, hgs.routes, up, multi_merge,
                                                 cost)]
    /\ UNCHANGED <<demand, due, cap, osrm, served, vlast, slast, elast, mlast, patient, roads>>
    /\ UNCHANGED stabilityVars

\* GET /driver/hgs up to the call of the solver (lines 798-820)
D_export ==
    /\ hgs.pc = "idle"
    /\ \E pts \in {get_driver_todays_deliveries(DriverRows(patient))} :
          hgs' = IF pts = <<>>
                 THEN [hgs EXCEPT !.pc = "done", !.resp = NoDeliveries]
                 ELSE [hgs EXCEPT !.pc = "driver_solving", !.encoded = pts]
    /\ UNCHANGED <<demand, due, cap, osrm, served, vlast, slast, elast, mlast, patient, roads>>
    /\ UNCHANGED stabilityVars

\* GET /driver/hgs from the return of the solver on (lines 820-966)
D_respond(routes, up, cost) ==
    /\ hgs.pc = "driver_solving"
    /\ routes \in DriverAnswers({hgs.encoded[k].cust_no : k \in DOMAIN hgs.encoded})
    /\ hgs' = [hgs EXCEPT !.pc = "done", !.routes = routes, !.pts = hgs.encoded,
                          !.live = up, !.multi_merge = TRUE, !.cost = cost,
                          !.resp = DriverRespond(hgs.encoded, routes, up, cost)]
    /\ UNCHANGED <<demand, due, cap, osrm, served, vlast, slast, elast, mlast, patient, roads>>
    /\ UNCHANGED stabilityVars

NextHgs ==
    \/ \E routes \in RouteLists(Customers) : H_export(routes)
    \/ \E p \in Patients, s \in RowStates : PatientChange(p, s)
    \/ \E up \in ServiceModes, multi_merge \in BOOLEAN, cost \in Costs :
         H_respond(up, multi_merge, cost)
    \/ D_export
    \/ \E routes \in DriverAnswers(Customers), up \in ServiceModes, cost \in Costs :
         D_respond(routes, up, cost)

\* no stability session yet
StabilityInit(dashboards) ==
    /\ STABILITY_STATE = [o \in Orders |-> NoState]
    /\ now = 0
    /\ dashboard \in dashboards
    /\ orderStatus = [o \in Orders |-> "on_route"]
    /\ estimated_stability_time = [o \in Orders |-> NoSecs]
    /\ last = Op("init", 0, 0, FALSE)
    /\ resp = [o \in Orders |-> NoResp]
    /\ pc = [t \in Threads |-> "idle"]
    /\ loc = [t \in Threads |-> IdleLoc]

Init ==
    /\ StabilityInit([Orders -> BOOLEAN])
    /\ RouteInit
    /\ roads = LineRoads
    /\ patient = AllLocated

InitRoute ==
    /\ StabilityInit({[o \in Orders |-> TRUE]})
    /\ RouteInit
    /\ roads = LineRoads
    /\ patient = AllLocated

\* the patient table holds any rows when the /hgs request arrives
InitHgs ==
    /\ StabilityInit({[o \in Orders |-> TRUE]})
    /\ RouteInit
    /\ roads = LineRoads
    /\ patient \in [Patients -> RowStates]

\* the /hgs request arrives on a road network of either kind
InitRoads ==
    /\ StabilityInit({[o \in Orders |-> TRUE]})
    /\ RouteInit
    /\ roads \in RoadMaps
    /\ patient \in [Patients -> RowStates]

\* the clock advances
Tick ==
    /\ now < MaxNow
    /\ now' = now + 1
    /\ last' = Op("tick", 0, 0, FALSE)
    /\ UNCHANGED <<STABILITY_STATE, dashboard, orderStatus,
                   estimated_stability_time, resp, pc, loc>>
    /\ UNCHANGED routeVars

\* a start that leaves an existing dict alone
start_stability_Once(o, found) ==
    /\ STABILITY_STATE' =
          IF found /\ ~STABILITY_STATE[o].present
          THEN [STABILITY_STATE EXCEPT ![o] = NewState(o)]
          ELSE STABILITY_STATE
    /\ resp' = IF found THEN [resp EXCEPT ![o] = RespStarted] ELSE resp
    /\ last' = Op(IF found THEN "start" ELSE "start_failed", o, 0, FALSE)
    /\ UNCHANGED <<now, dashboard, orderStatus, estimated_stability_time, pc, loc>>
    /\ UNCHANGED routeVars

\* POST /stability/start; found: the order has a medication row (line 37)
start_stability(o, found) ==
    /\ STABILITY_STATE' =
          IF found THEN [STABILITY_STATE EXCEPT ![o] = NewState(o)]
          ELSE STABILITY_STATE
    /\ resp' = IF found THEN [resp EXCEPT ![o] = RespStarted] ELSE resp
    /\ last' = Op(IF found THEN "start" ELSE "start_failed", o, 0, FALSE)
    /\ UNCHANGED <<now, dashboard, orderStatus, estimated_stability_time, pc, loc>>
    /\ UNCHANGED routeVars

\* POST /stability/update, served without interruption
update_stability(o, temp, d) ==
    /\ now + d <= MaxNow
    /\ LET r == UpdateResult(STABILITY_STATE[o], temp, dashboard[o], now, now + d)
       IN  /\ STABILITY_STATE' = [STABILITY_STATE EXCEPT ![o] = r.state]
           /\ resp' = [resp EXCEPT ![o] = r.resp]
           /\ estimated_stability_time' =
                 IF r.write = NoSecs THEN estimated_stability_time
                 ELSE [estimated_stability_time EXCEPT ![o] = r.write]
           \* the second reading of _now() is taken only in the countdown
           /\ now' = IF r.resp.kind = "remaining" THEN now + d ELSE now
           /\ last' = Op("update", o, temp, r.write # NoSecs)
    /\ UNCHANGED <<dashboard, orderStatus, pc, loc>>
    /\ UNCHANGED routeVars

\* POST /driver/orders/mark-delivered
mark_delivered(o) ==
    /\ orderStatus' = [orderStatus EXCEPT ![o] = "delivered"]
    /\ last' = Op("delivered", o, 0, FALSE)
    /\ UNCHANGED <<STABILITY_STATE, now, dashboard, estimated_stability_time,
                   resp, pc, loc>>
    /\ UNCHANGED routeVars

\* POST /driver/orders/reject
reject_order(o) ==
    /\ orderStatus' = [orderStatus EXCEPT ![o] = "rejected"]
    /\ last' = Op("rejected", o, 0, FALSE)
    /\ UNCHANGED <<STABILITY_STATE, now, dashboard, estimated_stability_time,
                   resp, pc, loc>>
    /\ UNCHANGED routeVars

\* the stability router
Next ==
    \/ Tick
    \/ \E o \in Orders, found \in BOOLEAN : start_stability(o, found)
    \/ \E o \in Orders, temp \in Temps, d \in 0..1 : update_stability(o, temp, d)

Spec == Init /\ [][Next]_vars

\* the stability router and the driver router
NextOrders ==
    \/ Next
    \/ \E o \in Orders : mark_delivered(o)
    \/ \E o \in Orders : reject_order(o)

SpecOrders == Init /\ [][NextOrders]_vars

\* ------------------------------------------------------------------------
\* update_stability served by the worker threads of the framework: the
\* handler is a plain function, so two requests for one order interleave
\* between its statements.  STABILITY_STATE has no lock.
\* ------------------------------------------------------------------------
Mine(t) == STABILITY_STATE[loc[t].order]

Respond(t, r) ==
    /\ resp' = [resp EXCEPT ![loc[t].order] = r]
    /\ last' = Op("update", loc[t].order, loc[t].temp, r.written_to_dashboard)
    /\ pc' = [pc EXCEPT ![t] = "idle"]
    /\ loc' = [loc EXCEPT ![t] = IdleLoc]

Goto(t, label) ==
    /\ pc' = [pc EXCEPT ![t] = label]
    /\ last' = Op("step", loc[t].order, loc[t].temp, FALSE)
    /\ UNCHANGED resp

\* lines 76-85
U_begin(t, o, temp) ==
    /\ pc[t] = "idle"
    /\ IF ~STABILITY_STATE[o].present \/ IsInactive(STABILITY_STATE[o])
       THEN /\ resp' = [resp EXCEPT ![o] =
                   IF ~STABILITY_STATE[o].present THEN RespNotStarted
                   ELSE RespInactive]
            /\ last' = Op("update", o, temp, FALSE)
            /\ UNCHANGED <<pc, loc>>
       ELSE /\ pc' = [pc EXCEPT ![t] = "lookup"]
            /\ loc' = [loc EXCEPT ![t] = [order |-> o, temp |-> temp, remaining |-> 0]]
            /\ last' = Op("step", o, temp, FALSE)
            /\ UNCHANGED resp
    /\ UNCHANGED <<STABILITY_STATE, now, dashboard, orderStatus,
                   estimated_stability_time>>
    /\ UNCHANGED routeVars

\* lines 88-98
U_lookup(t) ==
    /\ pc[t] = "lookup"
    /\ IF dashboard[loc[t].order]
       THEN Goto(t, "check") /\ UNCHANGED loc
       ELSE Respond(t, RespNoDashboard)
    /\ UNCHANGED <<STABILITY_STATE, now, dashboard, orderStatus,
                   estimated_stability_time>>
    /\ UNCHANGED routeVars

\* lines 101-103
U_check(t) ==
    /\ pc[t] = "check"
    /\ IF ExceedsMax(loc[t].temp, Mine(t))
       THEN /\ STABILITY_STATE' =
                   [STABILITY_STATE EXCEPT ![loc[t].order].active = FALSE]
            /\ Respond(t, RespExceeded)
       ELSE /\ Goto(t, "timer")
            /\ UNCHANGED <<STABILITY_STATE, loc>>
    /\ UNCHANGED <<now, dashboard, orderStatus, estimated_stability_time>>
    /\ UNCHANGED routeVars

\* line 106
U_timer(t) ==
    /\ pc[t] = "timer"
    /\ Goto(t, IF ShouldStartTimer(loc[t].temp, Mine(t)) THEN "assign" ELSE "branch")
    /\ UNCHANGED <<STABILITY_STATE, now, dashboard, orderStatus,
                   estimated_stability_time, loc>>
    /\ UNCHANGED routeVars

\* lines 107-108
U_assign(t) ==
    /\ pc[t] = "assign"
    /\ STABILITY_STATE' =
          [STABILITY_STATE EXCEPT ![loc[t].order] = StartTimer(Mine(t), now)]
    /\ Goto(t, "branch")
    /\ UNCHANGED <<now, dashboard, orderStatus, estimated_stability_time, loc>>
    /\ UNCHANGED routeVars

\* lines 111-117
U_branch(t) ==
    /\ pc[t] = "branch"
    /\ IF Mine(t).timer_started
       THEN LET remaining == Remaining(Mine(t), now)
            IN  /\ STABILITY_STATE' =
                      [STABILITY_STATE EXCEPT ![loc[t].order] = Expire(Mine(t), remaining)]
                /\ loc' = [loc EXCEPT ![t].remaining = Clamp(remaining)]
                /\ Goto(t, "write_remaining")
       ELSE /\ Goto(t, "write_safe")
            /\ UNCHANGED <<STABILITY_STATE, loc>>
    /\ UNCHANGED <<now, dashboard, orderStatus, estimated_stability_time>>
    /\ UNCHANGED routeVars

\* lines 120-141 and 144-162
U_write(t) ==
    /\ pc[t] \in {"write_remaining", "write_safe"}
    /\ LET secs == IF pc[t] = "write_remaining" THEN IntSecs(loc[t].remaining)
                   ELSE IntSecs(Mine(t).max_time)
       IN  /\ estimated_stability_time' =
                 [estimated_stability_time EXCEPT ![loc[t].order] = secs]
           /\ Respond(t, IF pc[t] = "write_remaining" THEN RespRemaining(secs)
                         ELSE RespSafe)
    /\ UNCHANGED <<STABILITY_STATE, now, dashboard, orderStatus>>
    /\ UNCHANGED routeVars

\* /stability/start while no update of that order is being served
StartQuiet(o, found) ==
    /\ \A t \in Threads : pc[t] # "idle" => loc[t].order # o
    /\ start_stability(o, found)

NextConc ==
    \/ Tick
    \/ \E o \in Orders, found \in BOOLEAN : StartQuiet(o, found)
    \/ \E t \in Threads, o \in Orders, temp \in Temps : U_begin(t, o, temp)
    \/ \E t \in Threads : U_lookup(t)
    \/ \E t \in Threads : U_check(t)
    \/ \E t \in Threads : U_timer(t)
    \/ \E t \in Threads : U_assign(t)
    \/ \E t \in Threads : U_branch(t)
    \/ \E t \in Threads : U_write(t)

SpecConc == Init /\ [][NextConc]_vars

SpecRoute == InitRoute /\ [][NextRoute]_vars

SpecSplit == InitRoute /\ [][NextSplit]_vars

SpecEdge == InitRoute /\ [][NextEdge]_vars

SpecMerge == InitRoute /\ [][NextMerge]_vars

SpecHgs == InitHgs /\ [][NextHgs]_vars

SpecRoads == InitRoads /\ [][NextHgs]_vars

\* ------------------------------------------------------------------------
\* Properties of the stability monitor
\* ------------------------------------------------------------------------
RespExpired == Resp("alert", "STABILITY_TIME_EXPIRED", NoSecs, TRUE)
RespTimerStarted == Resp("timer_started", "", NoSecs, FALSE)

Monitored(o) == STABILITY_STATE[o].present /\ STABILITY_STATE[o].active

\* the step serves one telemetry update of order o with reading temp
IsUpdate(o, temp) ==
    last'.op = "update" /\ last'.order = o /\ last'.temp = temp

\* C1: a telemetry update with temp > max_excursion_temp on an active order
\* sets active=false and returns MAX_EXCURSION_EXCEEDED, whatever the timer
\* state is.
C1_ExceededInEveryTimerState ==
    [][\A o \in Orders, temp \in Temps :
         (IsUpdate(o, temp) /\ Monitored(o) /\ temp > STABILITY_STATE[o].max_exc)
         => /\ ~STABILITY_STATE'[o].active
            /\ resp'[o].alert = "MAX_EXCURSION_EXCEEDED"]_vars

\* C2: with the timer started and remaining <= 0 the update sets active=false
\* and reports the alert STABILITY_TIME_EXPIRED, not a remaining_seconds value.
C2_ExpiryReportsAlert ==
    [][\A o \in Orders, temp \in Temps :
         (/\ IsUpdate(o, temp) /\ Monitored(o) /\ dashboard[o]
          /\ temp <= STABILITY_STATE[o].max_exc
          /\ STABILITY_STATE[o].timer_started
          /\ Remaining(STABILITY_STATE[o], now') <= 0)
         => /\ ~STABILITY_STATE'[o].active
            /\ resp'[o].alert = "STABILITY_TIME_EXPIRED"
            /\ resp'[o].remaining_seconds = NoSecs]_vars

\* C3: every update that meets an excursion (temp > max_excursion_temp) or an
\* expiry (remaining <= 0) on an active order returns an alert and inserts a
\* row; no earlier step of the update suppresses it.
C3_DetectionSurfacedAndPersisted ==
    [][\A o \in Orders, temp \in Temps :
         (/\ IsUpdate(o, temp) /\ Monitored(o)
          /\ \/ temp > STABILITY_STATE[o].max_exc
             \/ /\ STABILITY_STATE[o].timer_started
                /\ Remaining(STABILITY_STATE[o], now') <= 0)
         => /\ resp'[o].alert \in {"MAX_EXCURSION_EXCEEDED", "STABILITY_TIME_EXPIRED"}
            /\ last'.wrote]_vars

\* C4: once the timer of an order has started, no telemetry update changes
\* timer_started_at or sets timer_started back to false.
C4_TimerNeverResets ==
    [][\A o \in Orders, temp \in Temps :
         (/\ IsUpdate(o, temp)
          /\ STABILITY_STATE[o].present /\ STABILITY_STATE[o].timer_started)
         => /\ STABILITY_STATE'[o].timer_started
            /\ STABILITY_STATE'[o].timer_started_at
                 = STABILITY_STATE[o].timer_started_at]_vars

\* a reading back in the safe range was served at least two ticks after the
\* timer started, and the timer still runs
C4_Witness ==
    \E o \in Orders :
        /\ last = Op("update", o, FRIDGE_MAX, TRUE)
        /\ Monitored(o) /\ STABILITY_STATE[o].timer_started
        /\ now >= STABILITY_STATE[o].timer_started_at + 2
        /\ resp[o].kind = "remaining"

\* C5: an update of an order whose monitor is terminal (active=false) returns
\* "inactive", leaves the StabilityState unchanged and inserts no row.
C5_TerminalIsFrozen ==
    [][\A o \in Orders, temp \in Temps :
         (/\ IsUpdate(o, temp)
          /\ STABILITY_STATE[o].present /\ ~STABILITY_STATE[o].active)
         => /\ resp'[o] = RespInactive
            /\ STABILITY_STATE' = STABILITY_STATE
            /\ estimated_stability_time' = estimated_stability_time
            /\ ~last'.wrote]_vars

\* an update above the excursion maximum was answered "inactive"
C5_Witness ==
    \E o \in Orders :
        /\ last = Op("update", o, MaxExcursionTemp + 1, FALSE)
        /\ STABILITY_STATE[o].present /\ ~STABILITY_STATE[o].active
        /\ resp[o] = RespInactive

\* C6: with two updates of one order served concurrently, timer_started_at is
\* assigned once per monitoring session, and no update reports a safe or
\* running result for an order that is already terminal.
C6_ConcurrentUpdatesSerialized ==
    [][/\ \A o \in Orders :
            (/\ STABILITY_STATE[o].present /\ STABILITY_STATE[o].timer_started
             /\ last'.op # "start")
            => STABILITY_STATE'[o].timer_started_at
                 = STABILITY_STATE[o].timer_started_at
       /\ \A o \in Orders :
            (/\ last' = Op("update", o, last'.temp, TRUE)
             /\ \/ resp'[o].kind = "safe"
                \/ resp'[o].kind = "remaining" /\ resp'[o].remaining_seconds > 0)
            => STABILITY_STATE'[o].active]_vars

\* C7: an update with fridge_max < temp <= max_excursion_temp on an active
\* order whose timer is not started only starts the timer and reports
\* {timer_started: true}; it does not take the countdown branch.
C7_StartOnly ==
    [][\A o \in Orders, temp \in Temps :
         (/\ IsUpdate(o, temp) /\ Monitored(o) /\ dashboard[o]
          /\ ~STABILITY_STATE[o].timer_started
          /\ temp > FRIDGE_MAX /\ temp <= STABILITY_STATE[o].max_exc)
         => /\ STABILITY_STATE'[o].timer_started
            /\ STABILITY_STATE'[o].timer_started_at = now
            /\ resp'[o] = RespTimerStarted
            /\ ~last'.wrote]_vars

\* the step is an update of o that reports remaining_seconds right after
\* another update of o that reported remaining_seconds
SuccessiveCountdown(o) ==
    /\ \E temp \in Temps : IsUpdate(o, temp)
    /\ resp[o].kind = "remaining"
    /\ resp'[o].kind = "remaining"

\* C8 as stated: while the timer runs, each update reports a smaller
\* remaining_seconds than the previous update did.
C8_StrictlyDecreasing ==
    [][\A o \in Orders :
         SuccessiveCountdown(o)
         => resp'[o].remaining_seconds < resp[o].remaining_seconds]_vars

\* C8 amended: while the timer runs, no update reports a larger
\* remaining_seconds than the previous update did.
C8_NeverIncreasing ==
    [][\A o \in Orders :
         SuccessiveCountdown(o)
         => resp'[o].remaining_seconds <= resp[o].remaining_seconds]_vars

\* a second countdown report, at least two ticks after the timer started
C8_Witness ==
    \E o \in Orders :
        /\ last.op = "update" /\ last.order = o
        /\ resp[o].kind = "remaining"
        /\ resp[o].remaining_seconds < MaxTimeExertionSec
        /\ Monitored(o)
        /\ now >= STABILITY_STATE[o].timer_started_at + 2

\* C9: the update that follows the delivery or the rejection of an order
\* finds its StabilityState deactivated or destroyed and does not run the
\* excursion/timer logic.
C9_ClosedOnCompletion ==
    [][\A o \in Orders, temp \in Temps :
         (/\ IsUpdate(o, temp)
          /\ last.op \in {"delivered", "rejected"} /\ last.order = o)
         => /\ resp'[o].kind \in {"error", "inactive"}
            /\ STABILITY_STATE' = STABILITY_STATE]_vars

\* ------------------------------------------------------------------------
\* Properties of the route validator
\* ------------------------------------------------------------------------
Validated == served

\* the trips of the route validated last, each with its two depot visits
LastTrips == split_into_trips(vlast.route, cap, demand)
FullTrip(i) == <<DEPOT>> \o LastTrips[i].trip \o <<DEPOT>>

\* the client knows every leg of trip i up to the arrival at its k-th customer
LegsKnown(i, k) ==
    \A j \in 1..k : osrm.cache[<<FullTrip(i)[j], FullTrip(i)[j + 1]>>] # NoEdge

\* seconds since trip i left the depot at the arrival at its k-th customer
RECURSIVE ArrivalSec(_, _)
ArrivalSec(i, k) ==
    IF k = 0 THEN 0
    ELSE FloatAdd(ArrivalSec(i, k - 1),
                  osrm.cache[<<FullTrip(i)[k], FullTrip(i)[k + 1]>>].t)

Arrivals == {<<i, k>> \in (1..NumCustomers) \X (1..NumCustomers) :
                i <= Len(LastTrips) /\ k <= Len(LastTrips[i].trip)}

\* the k-th customer of trip i is reached after its due time
ArrivesLate(i, k) ==
    /\ LegsKnown(i, k)
    /\ ArrivalSec(i, k) > 60 * due[LastTrips[i].trip[k]]

\* ... over a leg the live service answered
ArrivesLateLive(i, k) ==
    /\ ArrivesLate(i, k)
    /\ <<FullTrip(i)[k], FullTrip(i)[k + 1]>> \notin osrm.fallback_edges

\* ... at exactly its due time
ArrivesOnTheMinute(i, k) ==
    /\ LegsKnown(i, k)
    /\ ArrivalSec(i, k) = 60 * due[LastTrips[i].trip[k]]

\* seconds of all trips of the route together
ShiftSec ==
    LET RECURSIVE Sum(_)
        Sum(i) == IF i = 0 THEN 0
                  ELSE FloatAdd(Sum(i - 1), ArrivalSec(i, Len(LastTrips[i].trip) + 1))
    IN  Sum(Len(LastTrips))

IsRejected ==
    ~vlast.feasible /\ vlast.expanded = <<>> /\ vlast.customers = <<>>

\* C10: validate_multitrip rejects (feasible=false, empty path, empty
\* customer list) every route in which a customer is reached over a live edge
\* later than its due time; a route whose arrivals are all at or before the
\* due time, and which fits the shift, is not rejected.
C10_LateOverLiveEdgeRejected ==
    Validated =>
        /\ (\E a \in Arrivals : ArrivesLateLive(a[1], a[2])) => IsRejected
        /\ (/\ \A a \in Arrivals : LegsKnown(a[1], a[2]) /\ ~ArrivesLate(a[1], a[2])
            /\ \A i \in 1..Len(LastTrips) : LegsKnown(i, Len(LastTrips[i].trip) + 1)
            /\ ShiftSec <= SHIFT_LIMIT_SEC)
           => vlast.feasible

\* a route of two customers in one trip was rejected for the late arrival at
\* the second one over a live edge, the first one being on the minute
C10_Witness ==
    /\ Validated
    /\ Len(vlast.route) = 2 /\ Len(LastTrips) = 1
    /\ ArrivesOnTheMinute(1, 1)
    /\ ArrivesLateLive(1, 2)
    /\ IsRejected

\* every leg of the route validated last has been asked for
AllLegsKnown ==
    \A i \in 1..Len(LastTrips) : LegsKnown(i, Len(LastTrips[i].trip) + 1)

\* seconds of trip i from the hospital and back
TripSec(i) == ArrivalSec(i, Len(LastTrips[i].trip) + 1)

\* the trips of the route validated last joined at the hospital
ExpandedPath ==
    LET RECURSIVE Join(_)
        Join(i) == IF i = 0 THEN <<>>
                   ELSE IF i = 1 THEN FullTrip(1)
                   ELSE Join(i - 1) \o Tail(FullTrip(i))
    IN  Join(Len(LastTrips))

\* C11: a route whose late arrivals are all over fallback legs, and whose
\* trips together fit the shift limit, is returned feasible with its full
\* expanded path and its customers.
C11_LateOverFallbackAccepted ==
    (/\ Validated
     /\ \E a \in Arrivals : ArrivesLate(a[1], a[2])
     /\ \A a \in Arrivals : ~ArrivesLateLive(a[1], a[2])
     /\ AllLegsKnown => ShiftSec <= SHIFT_LIMIT_SEC)
    => /\ vlast.feasible
       /\ vlast.expanded = ExpandedPath
       /\ vlast.customers = vlast.route

\* a route of two customers was accepted although the first one was
\* reached late over a fallback leg; the second leg was answered live
C11_Witness ==
    /\ Validated
    /\ Len(vlast.route) = 2 /\ Len(LastTrips) = 1
    /\ ArrivesLate(1, 1)
    /\ <<DEPOT, vlast.route[1]>> \in osrm.fallback_edges
    /\ <<vlast.route[1], vlast.route[2]>> \notin osrm.fallback_edges
    /\ vlast.feasible
    /\ vlast.expanded = <<DEPOT, vlast.route[1], vlast.route[2], DEPOT>>

\* C12: a route whose trips together, the legs back to the hospital
\* included, take longer than SHIFT_LIMIT_SEC is rejected, whether or not
\* its deadlines are met and whether or not legs are fallbacks.
C12_OverShiftRejected ==
    (Validated /\ AllLegsKnown /\ ShiftSec > SHIFT_LIMIT_SEC) => IsRejected

\* a route of two trips was rejected for the shift limit: no customer was
\* late, neither trip exceeds the limit alone, and one leg was a fallback
C12_Witness ==
    /\ Validated /\ AllLegsKnown
    /\ Len(LastTrips) = 2
    /\ \A a \in Arrivals : ~ArrivesLate(a[1], a[2])
    /\ TripSec(1) <= SHIFT_LIMIT_SEC /\ TripSec(2) <= SHIFT_LIMIT_SEC
    /\ ShiftSec > SHIFT_LIMIT_SEC
    /\ osrm.fallback_edges # {}
    /\ IsRejected

\* ------------------------------------------------------------------------
\* Properties of split_into_trips
\* ------------------------------------------------------------------------
\* the demand of the customers of the i-th trip of the last split together
SplitDemand(i) ==
    LET trip == slast.trips[i].trip
        RECURSIVE Sum(_)
        Sum(k) == IF k = 0 THEN 0 ELSE Sum(k - 1) + slast.demand[trip[k]]
    IN  Sum(Len(trip))

\* C13 as stated: every trip the split step produces has a total demand of
\* at most the capacity, for every route, demand map and capacity.
C13_EveryTripWithinCapacity ==
    \A i \in DOMAIN slast.trips : SplitDemand(i) <= slast.capacity

\* C13 amended: every trip of more than one customer has a total demand of
\* at most the capacity; a trip over the capacity is one customer whose
\* demand alone exceeds it.  The load kept with a trip is its total demand.
C13_GroupsWithinCapacity ==
    \A i \in DOMAIN slast.trips :
        /\ slast.trips[i].load = SplitDemand(i)
        /\ Len(slast.trips[i].trip) > 1 => SplitDemand(i) <= slast.capacity
        /\ SplitDemand(i) > slast.capacity
              => /\ Len(slast.trips[i].trip) = 1
                 /\ slast.demand[slast.trips[i].trip[1]] > slast.capacity

\* a route was split behind a trip of two customers that fill the vehicle
\* to the unit
C13_Witness ==
    /\ Len(slast.trips) = 1
    /\ Len(slast.trips[1].trip) = 2
    /\ slast.capacity > 1
    /\ SplitDemand(1) = slast.capacity

\* ------------------------------------------------------------------------
\* Properties of combine_and_validate_multitrip
\* ------------------------------------------------------------------------
SetOf(seq) == {seq[i] : i \in DOMAIN seq}

Answered == hgs.pc = "done" /\ hgs.resp.kind # "no_deliveries"

\* the customers of the routes the solver returned
RawCustomers ==
    UNION {{hgs.routes[i][k] : k \in DOMAIN hgs.routes[i]} : i \in DOMAIN hgs.routes}

\* the nodes of the routes of the response
ResponseNodes ==
    UNION {{hgs.resp.metrics[i].nodes[k] : k \in DOMAIN hgs.resp.metrics[i].nodes} :
           i \in DOMAIN hgs.resp.metrics}

\* C15: every customer of every route the solver returned is on some
\* route of the response, with multi_merge set and unset, also when the
\* route fails validation (here for the requests during which the patient
\* table did not change).
C15_NoDeliveryLost ==
    (Answered /\ hgs.pts = hgs.encoded) => RawCustomers \subseteq ResponseNodes

\* ------------------------------------------------------------------------
\* Properties of OSRMClient.get_edge
\* ------------------------------------------------------------------------
\* the step is a call of get_edge
IsGetEdge == elast'.calls = elast.calls + 1

\* C16: what get_edge returned for an ordered pair is what it returns for
\* that pair ever after, with the same fallback status and without a query
\* to the map service, whether the service is up or down by then.
C16_EdgeAnsweredOnce ==
    [][IsGetEdge =>
         /\ osrm'.cache[<<elast'.u, elast'.v>>] = elast'.edge
         /\ \A e \in Edges :
               osrm.cache[e] # NoEdge
               => /\ osrm'.cache[e] = osrm.cache[e]
                  /\ e \in osrm'.fallback_edges <=> e \in osrm.fallback_edges
         /\ osrm.cache[<<elast'.u, elast'.v>>] # NoEdge
               => /\ elast'.edge = osrm.cache[<<elast'.u, elast'.v>>]
                  /\ ~elast'.queried]_vars

\* the third call asked for a pair of different nodes whose fallback was
\* remembered, the service being up by now: it got the fallback, unasked
C16_Witness ==
    /\ elast.calls = 3
    /\ elast.u # elast.v
    /\ elast.live /\ ~elast.queried
    /\ <<elast.u, elast.v>> \in osrm.fallback_edges
    /\ elast.edge = FallbackEdge(elast.u, elast.v)

\* get_edge has just fallen back: the service was asked and did not answer
FellBack == elast.calls > 0 /\ elast.queried /\ ~elast.live

\* C17 as stated: for any two nodes for which the live query fails,
\* get_edge returns a positive distance and a positive duration and the
\* pair is in the fallback set afterwards; the pair (u, u) included.
C17_FallbackPositive ==
    FellBack
    => /\ elast.edge.d > 0 /\ elast.edge.t > 0
       /\ <<elast.u, elast.v>> \in osrm.fallback_edges

\* C17 amended: for any two nodes for which the live query fails, get_edge
\* returns a distance and a duration that are not negative, and positive
\* when the two nodes have different coordinates, and the pair is in the
\* fallback set afterwards; for (u, u) and for two nodes at the same
\* coordinates both are 0.
C17_FallbackNotNegative ==
    FellBack
    => /\ elast.edge.d >= 0 /\ elast.edge.t >= 0
       /\ osrm.coords[elast.u] # osrm.coords[elast.v]
             => elast.edge.d > 0 /\ elast.edge.t > 0
       /\ osrm.coords[elast.u] = osrm.coords[elast.v]
             => elast.edge.d = 0 /\ elast.edge.t = 0
       /\ <<elast.u, elast.v>> \in osrm.fallback_edges

\* the service did not answer for a leg back to the hospital
C17_Witness ==
    /\ FellBack
    /\ elast.u # DEPOT /\ elast.v = DEPOT
    /\ elast.edge.d > 0 /\ elast.edge.t > 0
    /\ <<elast.u, elast.v>> \in osrm.fallback_edges

C19_NodeSetFixed ==
    Answered => hgs.pts = hgs.encoded

\* the patient a stop of either encoder stands for
StopPatient(stop) ==
    IF "id" \in DOMAIN stop THEN stop.id ELSE stop.patient_id

\* the step reads the table and encodes the stops
IsEncode == hgs.pc = "idle" /\ hgs'.pc # "idle"

\* C20: the encoders give the rows that have coordinates the indices 1..N
\* in the order of the rows, without a gap and never 0; a row without
\* coordinates gets no index and takes none.
C20_DenseIndices ==
    [][IsEncode =>
         LET rows == SelectSeq(Rows(patient), LAMBDA r : r.lat # NoCoords)
         IN  /\ Len(hgs'.encoded) = Len(rows)
             /\ \A k \in DOMAIN hgs'.encoded :
                   /\ hgs'.encoded[k].cust_no = k
                   /\ StopPatient(hgs'.encoded[k]) = rows[k].patient_id]_vars

\* the table was read with a row without coordinates ahead of a row with
\* coordinates: the first was passed over and the second got index 1
C20_Witness ==
    /\ hgs.pc = "solved"
    /\ hgs.skipped # <<>>
    /\ hgs.encoded # <<>>
    /\ hgs.skipped[1] < hgs.encoded[1].id
    /\ hgs.encoded[1].cust_no = 1

\* ------------------------------------------------------------------------
\* C21: the cost of a routing response
\* ------------------------------------------------------------------------
RoutingResponse == hgs.resp.kind \in {"routes", "driver_routes"}

\* C21: the cost field of every routing response, hospital or driver, is a
\* finite number or null: a finite cost of the solver is passed on as it is
\* and a cost that is not finite is replaced by null.
C21_CostFiniteOrNull ==
    RoutingResponse =>
        /\ hgs.resp.cost \in {"12.5", "None"}
        /\ hgs.resp.cost = IF hgs.cost = "12.5" THEN "12.5" ELSE "None"

C21_Witness ==
    /\ hgs.resp.kind = "routes"
    /\ hgs.resp.num_routes >= 1
    /\ hgs.cost = "inf"
    /\ hgs.resp.cost = "None"

\* ------------------------------------------------------------------------
\* C22: the ETAs of an order in the driver response
\* ------------------------------------------------------------------------
DriverRouted == hgs.resp.kind = "driver_routes"

\* the orders of the request and the node of each
DriverOrders == {hgs.pts[k].order_id : k \in DOMAIN hgs.pts}
NodeOfOrder(oid) ==
    hgs.pts[CHOOSE k \in DOMAIN hgs.pts : hgs.pts[k].order_id = oid].cust_no

\* the legs of the response that arrive at the node of order oid, as
\* <<route, leg>>, and the first of them in path order
LegsArriving(oid) ==
    {<<i, k>> \in (1..Len(hgs.resp.routes)) \X (1..(2 * NumCustomers + 8)) :
        /\ k <= Len(hgs.resp.routes[i].legs)
        /\ hgs.resp.routes[i].legs[k].to = NodeOfOrder(oid)}
FirstArrival(oid) ==
    CHOOSE a \in LegsArriving(oid) :
        \A b \in LegsArriving(oid) : a[1] < b[1] \/ (a[1] = b[1] /\ a[2] <= b[2])

\* the minutes of the routes before route i, each rounded on its own
RECURSIVE MinutesBefore(_)
MinutesBefore(i) ==
    IF i <= 1 THEN 0
    ELSE MinutesBefore(i - 1)
         + hgs.resp.routes[i - 1].legs[Len(hgs.resp.routes[i - 1].legs)]
               .cumulative_eta_min

\* C22: in the driver response an order has ETAs exactly when a leg
\* arrives at its node, and they are those of the first such leg in path
\* order: its segment minutes, and its cumulative minutes counted on from
\* the routes before it; no later arrival changes them.
C22_FirstArrivalWins ==
    DriverRouted =>
        /\ DOMAIN hgs.resp.eta.by_order = {o \in DriverOrders : LegsArriving(o) # {}}
        /\ DOMAIN hgs.resp.eta.cumulative_by_order = DOMAIN hgs.resp.eta.by_order
        /\ \A o \in DOMAIN hgs.resp.eta.by_order :
              LET a == FirstArrival(o)
                  leg == hgs.resp.routes[a[1]].legs[a[2]]
              IN  /\ hgs.resp.eta.by_order[o] = leg.segment_eta_min
                  /\ hgs.resp.eta.cumulative_by_order[o]
                        = leg.cumulative_eta_min + MinutesBefore(a[1])

\* an order reached twice, in a later route the second time, over a leg
\* with other minutes than the first
C22_Witness ==
    /\ DriverRouted
    /\ \E o \in DOMAIN hgs.resp.eta.by_order :
          \E b \in LegsArriving(o) :
              LET a == FirstArrival(o)
                  later == hgs.resp.routes[b[1]].legs[b[2]]
              IN  /\ b[1] > a[1]
                  /\ later.segment_eta_min # hgs.resp.eta.by_order[o]
                  /\ later.cumulative_eta_min + MinutesBefore(b[1])
                        # hgs.resp.eta.cumulative_by_order[o]

\* ------------------------------------------------------------------------
\* C23: the split step and the validator keep the order of the customers
\* ------------------------------------------------------------------------
\* the trips of the route validated last, one after the other
TripsJoined ==
    LET RECURSIVE Join(_)
        Join(i) == IF i = 0 THEN <<>> ELSE Join(i - 1) \o LastTrips[i].trip
    IN  Join(Len(LastTrips))

\* the trips with the depot at the start, at the end and between them
DepotDelimited ==
    LET RECURSIVE Join(_)
        Join(i) == IF i = 0 THEN <<DEPOT>>
                   ELSE Join(i - 1) \o LastTrips[i].trip \o <<DEPOT>>
    IN  Join(Len(LastTrips))

\* C23 as stated: the trips of a route, concatenated in order, are the
\* route; on success the validator returns the route as customer list and,
\* as expanded path, the route with the depot at the start, at the end and
\* between consecutive trips.
C23_OrderKept ==
    Validated =>
        /\ TripsJoined = vlast.route
        /\ vlast.feasible => /\ vlast.customers = vlast.route
                             /\ vlast.expanded = DepotDelimited

\* C23 amended: as stated for a route with a customer; the empty route
\* succeeds with an empty path, without a depot entry, and no customers.
C23_OrderKeptWithCustomers ==
    Validated =>
        /\ TripsJoined = vlast.route
        /\ vlast.feasible =>
              /\ vlast.customers = vlast.route
              /\ vlast.expanded = IF vlast.route = <<>> THEN <<>> ELSE DepotDelimited

\* a route of two customers was accepted in two trips
C23_Witness ==
    /\ Validated
    /\ vlast.feasible
    /\ Len(vlast.route) = 2 /\ Len(LastTrips) = 2
    /\ vlast.expanded = <<DEPOT, vlast.route[1], DEPOT, vlast.route[2], DEPOT>>

\* ------------------------------------------------------------------------
\* C24: the deadline clock of a trip
\* ------------------------------------------------------------------------
\* C24: the time compared with the due time of a customer is the time since
\* its own trip left the depot (ArrivalSec), the shift total is the time of
\* all trips.  An accepted route has no customer reached over a live edge
\* later, on the clock of its trip, than its due time, and its trips
\* together fit the shift limit; a rejected route has such a customer, or
\* its trips together exceed the shift limit.
C24_ClockPerTrip ==
    Validated =>
        /\ vlast.feasible =>
              /\ AllLegsKnown
              /\ \A a \in Arrivals : ~ArrivesLateLive(a[1], a[2])
              /\ ShiftSec <= SHIFT_LIMIT_SEC
        /\ ~vlast.feasible =>
              \/ \E a \in Arrivals : ArrivesLateLive(a[1], a[2])
              \/ AllLegsKnown /\ ShiftSec > SHIFT_LIMIT_SEC

\* a route was accepted whose second trip reaches its customer over a live
\* edge in time on the clock of the trip, and too late on a clock that
\* had started with the first trip
C24_Witness ==
    /\ Validated
    /\ vlast.feasible
    /\ Len(LastTrips) = 2
    /\ <<DEPOT, LastTrips[2].trip[1]>> \notin osrm.fallback_edges
    /\ ArrivalSec(2, 1) <= 60 * due[LastTrips[2].trip[1]]
    /\ TripSec(1) + ArrivalSec(2, 1) > 60 * due[LastTrips[2].trip[1]]

\* ------------------------------------------------------------------------
\* C25, C26, C30: the merge loop
\* ------------------------------------------------------------------------
MergeDone == mlast.stage # "none"

\* the route a followed by the route b validates for the client as the
\* last Merge left it
Validates(a, b) ==
    validate_multitrip(a \o b, cap, demand, due, osrm, mlast.live).feasible

\* C25: when the merge loop has ended, no route of the working list
\* followed by a later one validates; every concatenation the loop tried
\* was a route of the working list followed by a later one.
C25_StopsAtFixedPoint ==
    MergeDone =>
        /\ \A i, j \in DOMAIN mlast.raw :
              i < j => ~Validates(mlast.raw[i], mlast.raw[j])
        /\ \A t \in DOMAIN mlast.log.tried :
              LET p == mlast.log.tried[t]
              IN  p.i < p.j /\ p.cand = p.first \o p.second

\* the loop ended with two routes: the first followed by the second was
\* tried and fails, the second followed by the first would validate and
\* was never tried
C25_Witness ==
    /\ mlast.stage = "merged"
    /\ Len(mlast.raw) = 2
    /\ Len(mlast.log.tried) = 1
    /\ mlast.log.tried[1].cand = mlast.raw[1] \o mlast.raw[2]
    /\ ~Validates(mlast.raw[1], mlast.raw[2])
    /\ Validates(mlast.raw[2], mlast.raw[1])

\* the number of routes of the last input that are not empty
InputRoutes == Len(SelectSeq(mlast.input, LAMBDA r : r # <<>>))

\* C26 as stated: Merge ends, and with k non-empty input routes after at
\* most k - 1 merges and at most k passes of its scan.
C26_BoundedPasses ==
    MergeDone =>
        /\ mlast.log.merges <= InputRoutes - 1
        /\ mlast.log.passes <= InputRoutes

\* C26 amended: Merge ends; every merge takes one route off the working
\* list and only a merge is followed by another pass, so with k >= 1
\* non-empty input routes there are at most k - 1 merges and at most k
\* passes; with none there is no merge and the one pass that finds no pair.
C26_PassesFollowMerges ==
    MergeDone =>
        /\ mlast.log.passes = mlast.log.merges + 1
        /\ Len(mlast.raw) = InputRoutes - mlast.log.merges
        /\ InputRoutes >= 1 => /\ mlast.log.merges <= InputRoutes - 1
                               /\ mlast.log.passes <= InputRoutes
        /\ InputRoutes = 0 => mlast.log.merges = 0 /\ mlast.log.passes = 1

\* two routes were merged into one: one merge, two passes
C26_Witness ==
    /\ mlast.stage = "merged"
    /\ InputRoutes = 2
    /\ mlast.log.merges = 1
    /\ mlast.log.passes = 2
    /\ Len(mlast.raw) = 1

\* how often customer n is visited in the routes Merge returned
Visits(n) ==
    LET RECURSIVE Sum(_)
        Sum(i) == IF i = 0 THEN 0
                  ELSE Sum(i - 1)
                       + Cardinality({k \in DOMAIN mlast.out[i] : mlast.out[i][k] = n})
    IN  Sum(Len(mlast.out))

\* the customers of the input routes
InputCustomers == UNION {SetOf(mlast.input[i]) : i \in DOMAIN mlast.input}

\* the route validates on its own, on a client that knows no edge yet
ValidAlone(route) ==
    validate_multitrip(route, cap, demand, due, NewClient(LineCoords),
                       mlast.live).feasible

\* C30: Merge on the pairwise disjoint routes of a solver returns no
\* customer twice, no customer that is not in an input route, and every
\* customer of an input route that validates on its own exactly once.
C30_CustomersKept ==
    mlast.stage = "merged" =>
        /\ \A n \in Customers : Visits(n) <= 1
        /\ \A n \in Customers : Visits(n) >= 1 => n \in InputCustomers
        /\ \A i \in DOMAIN mlast.input :
              ValidAlone(mlast.input[i]) =>
                  \A k \in DOMAIN mlast.input[i] : Visits(mlast.input[i][k]) = 1

\* of two input routes that no merge joins one validates on its own and is
\* returned, the other does not and is not
C30_Witness ==
    /\ mlast.stage = "merged"
    /\ Len(mlast.input) = 2
    /\ mlast.log.merges = 0
    /\ \E i, j \in DOMAIN mlast.input :
          /\ ValidAlone(mlast.input[i]) /\ Visits(mlast.input[i][1]) = 1
          /\ ~ValidAlone(mlast.input[j]) /\ Visits(mlast.input[j][1]) = 0

\* ------------------------------------------------------------------------
\* C27: the form of the paths of the driver response
\* ------------------------------------------------------------------------
\* the path starts and ends at the depot and has no two depot entries
\* next to each other
HasRouteForm(path) ==
    /\ Len(path) >= 2
    /\ path[1] = DEPOT /\ path[Len(path)] = DEPOT
    /\ \A k \in 1..(Len(path) - 1) : ~(path[k] = DEPOT /\ path[k + 1] = DEPOT)

\* C27: every path of the driver response has the form 0, trip, 0, trip,
\* ..., 0: it starts and ends with the depot and has one depot entry, never
\* two, between consecutive trips, also when it comes from a merged route.
C27_DriverPathsHaveRouteForm ==
    DriverRouted =>
        \A i \in DOMAIN hgs.resp.routes : HasRouteForm(hgs.resp.routes[i].path)

\* ------------------------------------------------------------------------
\* C28: a start answered for an order that already has a dict replaces the
\* dict whatever it held: afterwards the timer is not started, has no start
\* time, and the dict is active, also when the timer was running or the
\* dict had been made inactive by an alert.
StartedAgain(o) ==
    /\ last'.op = "start"
    /\ last'.order = o
    /\ STABILITY_STATE[o].present

C28_StartOverwrites ==
    [][\A o \in Orders :
          StartedAgain(o) =>
              /\ STABILITY_STATE'[o].timer_started = FALSE
              /\ STABILITY_STATE'[o].timer_started_at = NoTime
              /\ STABILITY_STATE'[o].active = TRUE]_vars

\* a start has been answered for an order whose countdown had been running
\* (seconds below the full time were written for it), and the dict is new
C28_Witness ==
    /\ last.op = "start"
    /\ estimated_stability_time[last.order] # NoSecs
    /\ estimated_stability_time[last.order] < IntSecs(get_medication_config(last.order).max_time)
    /\ STABILITY_STATE[last.order] = NewState(last.order)

\* ------------------------------------------------------------------------
\* C29: every route of the hospital response computed with multi_merge=true
\* has metrics.within_shift = true.
MergedResponse == hgs.pc = "done" /\ hgs.resp.kind = "routes" /\ hgs.multi_merge

C29_MergedWithinShift ==
    MergedResponse =>
        \A i \in DOMAIN hgs.resp.metrics : hgs.resp.metrics[i].within_shift

====
